---- MODULE Spec2Model ----
(***************************************************************************)
(* go-mqtt-timescale: an MQTT subscriber that decodes sensor messages and  *)
(* appends them to a TimescaleDB table.                                    *)
(*                                                                         *)
(* The model covers main's startup/shutdown sequence, the broker session   *)
(* (connect, subscribe, connection loss, automatic reconnect, dispatch),   *)
(* processMessage with its decoding rules, the store gateway               *)
(* (InitializeTable in both variants found in the repository,              *)
(* InsertSensorData, Close), and the construction of the broker URL.       *)
(*                                                                         *)
(* Specifications: Spec (the service over several starts), FairSpec (one   *)
(* run, main's goroutine fair once signalled), SpecHandler (one handler    *)
(* invocation over every payload shape), SpecConfig (building the client   *)
(* under every broker setting), SpecGateway (the gateway's methods in any  *)
(* order).                                                                 *)
(*                                                                         *)
(* Units: decimal readings are held in tenths (24.5 is 245); instants and  *)
(* the wall clock are held in hours.  A string is a sequence of            *)
(* one-character strings, except a timestamp text, which is a sequence of  *)
(* lexical tokens (a local date-time, a zone designator, other text).      *)
(***************************************************************************)
EXTENDS Integers, Sequences, FiniteSets, TLC

\* ------------------------------------------------------------------ bounds

\* Process starts (runs of main) against the same store.
MaxRuns == 2
\* Messages the broker library hands to the handler, over all runs.
MaxMsgs == 2

\* ------------------------------------------------------- JSON values

\* A decoded JSON value as json.Unmarshal yields it in a map[string]interface{}:
\* a missing key, a string, a float64, or a value of another dynamic type.
Absent == [t |-> "absent", n |-> 0, s |-> <<>>]
Str(s) == [t |-> "string", n |-> 0, s |-> s]
Num(n) == [t |-> "number", n |-> n, s |-> <<>>]
Other(t) == [t |-> t, n |-> 0, s |-> <<>>]

Keys == {"timestamp", "temperature", "humidity", "light", "device_id"}

\* The zero time.Time of a declared and never assigned variable.
ZeroTime == 0 - 100

\* ------------------------------------------------ time.Parse(RFC3339)

DateTimes == {"dt0", "dt1", "dt2"}
Offsets == {"Z", "+01:00", "-01:00"}

LocalOf(tok) == CASE tok = "dt0" -> 0 [] tok = "dt1" -> 1 [] OTHER -> 2
OffsetOf(tok) == CASE tok = "Z" -> 0 [] tok = "+01:00" -> 1 [] OTHER -> 0 - 1

\* time.Parse(time.RFC3339, tsStr): the text must be exactly a date-time
\* followed by a zone designator; the instant is the local time less the
\* offset.
ParseRFC3339(s) ==
    IF Len(s) = 2 /\ s[1] \in DateTimes /\ s[2] \in Offsets
    THEN [err |-> FALSE, t |-> LocalOf(s[1]) - OffsetOf(s[2])]
    ELSE [err |-> TRUE, t |-> ZeroTime]

\* ------------------------------------------------ fmt.Sscanf(s, "%f")

Digits == {"0", "1", "2", "3", "4", "5", "6", "7", "8", "9"}

DigitVal(c) ==
    CASE c = "0" -> 0 [] c = "1" -> 1 [] c = "2" -> 2 [] c = "3" -> 3
      [] c = "4" -> 4 [] c = "5" -> 5 [] c = "6" -> 6 [] c = "7" -> 7
      [] c = "8" -> 8 [] OTHER -> 9

RECURSIVE SkipSpace(_)
SkipSpace(s) == IF s # <<>> /\ Head(s) = " " THEN SkipSpace(Tail(s)) ELSE s

\* The longest prefix of s made of digits.
RECURSIVE DigitRun(_)
DigitRun(s) ==
    IF s # <<>> /\ Head(s) \in Digits THEN <<Head(s)>> \o DigitRun(Tail(s)) ELSE <<>>

RECURSIVE DigitsValue(_, _)
DigitsValue(ds, acc) ==
    IF ds = <<>> THEN acc ELSE DigitsValue(Tail(ds), 10 * acc + DigitVal(Head(ds)))

Drop(s, k) == SubSeq(s, k + 1, Len(s))

\* parseFloat: fmt.Sscanf(s, "%f", &f).  The scanner skips leading blanks,
\* reads an optional sign, a run of digits and an optional fraction, and
\* converts that token; what follows the token is left unread and is not an
\* error.  A token without a digit is an error.  The value is in tenths, the
\* fraction's first digit being the only one the model's strings carry.
parseFloat(s) ==
    LET a == SkipSpace(s)
        neg == a # <<>> /\ Head(a) = "-"
        b == IF a # <<>> /\ Head(a) \in {"-", "+"} THEN Tail(a) ELSE a
        ip == DigitRun(b)
        c == Drop(b, Len(ip))
        dot == c # <<>> /\ Head(c) = "."
        fp == IF dot THEN DigitRun(Tail(c)) ELSE <<>>
        mag == 10 * DigitsValue(ip, 0) + (IF fp = <<>> THEN 0 ELSE DigitVal(fp[1]))
    IN  IF ip = <<>> /\ fp = <<>>
        THEN [err |-> TRUE, f |-> 0]
        ELSE [err |-> FALSE, f |-> IF neg THEN 0 - mag ELSE mag]

\* A getFloat64Value without the string case.
getFloat64Value_NumbersOnly(data, key) ==
    LET val == data[key]
    IN  CASE val.t = "number" -> [f |-> val.n, ok |-> TRUE]
          [] OTHER -> [f |-> 0, ok |-> FALSE]

\* getFloat64Value(data, key): a float64 as it is, a string through
\* parseFloat, anything else (and a missing key) 0 with ok = false.  The
\* int and int64 cases never match a value json.Unmarshal produced.
getFloat64Value(data, key) ==
    LET val == data[key]
    IN  CASE val.t = "number" -> [f |-> val.n, ok |-> TRUE]
          [] val.t = "string" ->
                IF parseFloat(val.s).err
                THEN [f |-> 0, ok |-> FALSE]
                ELSE [f |-> parseFloat(val.s).f, ok |-> TRUE]
          [] OTHER -> [f |-> 0, ok |-> FALSE]

\* ------------------------------------------------------- processMessage

NoFields == [k \in Keys |-> Absent]

Obj(ts, te, hu, li, id) ==
    [kind |-> "object",
     f |-> [timestamp |-> ts, temperature |-> te, humidity |-> hu,
            light |-> li, device_id |-> id]]

\* Bytes that json.Unmarshal rejects for a map target: invalid JSON, or a
\* document whose top level is an array, a string, a number or a boolean.
Malformed == [kind |-> "malformed", f |-> NoFields]
\* The document null: json.Unmarshal returns no error and leaves the map nil.
NullDoc == [kind |-> "null", f |-> NoFields]

\* SensorData, internal/models.
SensorData(ts, te, hu, li, id) ==
    [Timestamp |-> ts, Temperature |-> te, Humidity |-> hu, Light |-> li,
     Device_ID |-> id]

NoRecord == SensorData(ZeroTime, 0, 0, 0, <<>>)

\* json.Unmarshal(payload, &rawData) into a map[string]interface{}.
Unmarshal(payload) ==
    [err |-> payload.kind = "malformed", rawData |-> payload.f]

\* A fallback that leaves the declared time.Time unassigned.
Timestamp_NoFallback(rawData, now) ==
    IF rawData["timestamp"].t = "string"
    THEN ParseRFC3339(rawData["timestamp"].s).t
    ELSE ZeroTime

\* The timestamp of the record: the parsed instant of a string that parses
\* as RFC3339, time.Now() otherwise.
Timestamp(rawData, now) ==
    IF rawData["timestamp"].t = "string"
    THEN IF ParseRFC3339(rawData["timestamp"].s).err
         THEN now
         ELSE ParseRFC3339(rawData["timestamp"].s).t
    ELSE now

\* A type assertion whose ok result is ignored.
DeviceID_Unchecked(rawData) ==
    [ok |-> TRUE, s |-> rawData["device_id"].s]

\* rawData["device_id"].(string)
DeviceID(rawData) ==
    [ok |-> rawData["device_id"].t = "string", s |-> rawData["device_id"].s]

\* processMessage up to the InsertSensorData call: what the handler decides
\* for a payload, `now` being what time.Now() returns during the call.
\*   outcome "unmarshal": returned at the json.Unmarshal error
\*   outcome "device_id": returned at the device_id check
\*   outcome "insert":    InsertSensorData is called with data
DecodeMessage(payload, now) ==
    LET u == Unmarshal(payload)
    IN  IF u.err
        THEN [outcome |-> "unmarshal", data |-> NoRecord]
        ELSE IF ~DeviceID(u.rawData).ok
        THEN [outcome |-> "device_id", data |-> NoRecord]
        ELSE [outcome |-> "insert",
              data |-> SensorData(Timestamp(u.rawData, now),
                                  getFloat64Value(u.rawData, "temperature").f,
                                  getFloat64Value(u.rawData, "humidity").f,
                                  getFloat64Value(u.rawData, "light").f,
                                  DeviceID(u.rawData).s)]

\* The payloads published on the topic while the service runs: bytes that
\* are not JSON, an object without device_id, the README's reading with an
\* RFC3339 timestamp, a reading with a numeric string and no timestamp, and
\* a reading whose device_id is the empty string.
Payloads ==
    { Malformed,
      Obj(Absent, Num(245), Absent, Absent, Absent),
      Obj(Str(<<"dt1", "Z">>), Num(245), Num(652), Num(8500), Str(<<"s", "1">>)),
      Obj(Absent, Str(<<"1", "8", ".", "0">>), Absent, Absent, Str(<<"s", "2">>)),
      Obj(Absent, Num(15), Absent, Absent, Str(<<>>)) }

\* The values a field takes in the payloads one handler invocation is
\* checked against.
TimestampValues ==
    { Absent, Num(3), Other("null"), Str(<<"dt1">>), Str(<<"other">>),
      Str(<<"dt1", "Z">>), Str(<<"dt0", "+01:00">>), Str(<<"dt2", "-01:00">>) }

ReadingValues ==
    { Absent, Num(245), Num(0 - 15), Other("bool"), Other("null"),
      Str(<<"1", "8", ".", "0">>), Str(<<"2", "4", ".", "5", "x">>),
      Str(<<"-", "3", ".", "5">>), Str(<<" ", "-", "3">>), Str(<<"x">>),
      Str(<<>>) }

FewReadingValues == { Absent, Num(652), Str(<<"7">>), Other("array") }

DeviceIDValues ==
    { Absent, Num(7), Other("bool"), Other("null"), Other("object"),
      Other("array"), Str(<<>>), Str(<<"s", "1">>) }

\* Every payload one handler invocation is checked against.
AllPayloads ==
    {Malformed, NullDoc} \cup
    { Obj(ts, te, hu, li, id) :
        ts \in TimestampValues, te \in ReadingValues, hu \in FewReadingValues,
        li \in {Absent, Num(8500)}, id \in DeviceIDValues }

\* --------------------------------------------------------- store gateway

FiveColumns == {"time", "temperature", "humidity", "light", "device_id"}

\* The catalog state of the target relation in the store.
NoSchema == [exists |-> FALSE, columns |-> {}, hypertable |-> FALSE]

\* What the store can refuse during InitializeTable: nothing, the catalog
\* query, the CREATE TABLE statement, the create_hypertable call.
InitFaults == {"none", "query", "create", "hyper"}

\* SELECT EXISTS (... information_schema.tables ...).Scan(&exists)
TableExists(sch, fault) ==
    [err |-> fault = "query", exists |-> sch.exists]

\* The CREATE TABLE text of the later variant: five columns, well formed.
CreateTableSQL == [wellFormed |-> TRUE, columns |-> FiveColumns]

\* The CREATE TABLE text of the earlier variant: no comma after the light
\* column and a comma before the closing parenthesis; the store rejects it.
CreateTableSQLEarlier == [wellFormed |-> FALSE, columns |-> FiveColumns]

\* conn.Exec of a CREATE TABLE statement; each Exec commits on its own.
ExecCreateTable(sch, stmt, fault) ==
    IF fault = "create" \/ ~stmt.wellFormed \/ sch.exists
    THEN [err |-> TRUE, schema |-> sch]
    ELSE [err |-> FALSE,
          schema |-> [exists |-> TRUE, columns |-> stmt.columns, hypertable |-> FALSE]]

\* conn.Exec of SELECT create_hypertable(table, 'time' [, if_not_exists => TRUE])
ExecCreateHypertable(sch, ifNotExists, fault) ==
    IF fault = "hyper" \/ ~sch.exists \/ "time" \notin sch.columns
       \/ (sch.hypertable /\ ~ifNotExists)
    THEN [err |-> TRUE, schema |-> sch]
    ELSE [err |-> FALSE, schema |-> [sch EXCEPT !.hypertable = TRUE]]

\* The body both variants of InitializeTable share: query the catalog; when
\* the table is absent, create it and then convert it; when present, return.
\* ddl lists the statements issued after the catalog query; refused tells
\* whether the store refused a statement that was issued.
InitializeTableWith(sch, fault, stmt, ifNotExists) ==
    LET q == TableExists(sch, fault)
        c == ExecCreateTable(sch, stmt, fault)
        h == ExecCreateHypertable(c.schema, ifNotExists, fault)
    IN  IF q.err
        THEN [err |-> TRUE, schema |-> sch, ddl |-> <<>>, refused |-> TRUE]
        ELSE IF q.exists
        THEN [err |-> FALSE, schema |-> sch, ddl |-> <<>>, refused |-> FALSE]
        ELSE IF c.err
        THEN [err |-> TRUE, schema |-> c.schema, ddl |-> <<"create_table">>,
              refused |-> fault = "create"]
        ELSE [err |-> h.err, schema |-> h.schema,
              ddl |-> <<"create_table", "create_hypertable">>,
              refused |-> fault = "hyper"]

\* TimescaleDB.InitializeTable, earlier variant.
InitializeTableEarlier(sch, fault) ==
    InitializeTableWith(sch, fault, CreateTableSQLEarlier, FALSE)

\* TimescaleDB.InitializeTable, later variant.
InitializeTable(sch, fault) ==
    InitializeTableWith(sch, fault, CreateTableSQL, TRUE)

\* The column list of the INSERT statement, in the order it is written.
InsertColumns == <<"time", "temperature", "humidity", "light", "device_id">>

\* An argument list with the humidity and light arguments exchanged.
InsertArgs_Swapped(data) ==
    <<data.Timestamp, data.Temperature, data.Light, data.Humidity, data.Device_ID>>

\* The arguments InsertSensorData passes for $1 .. $5.
InsertArgs(data) ==
    <<data.Timestamp, data.Temperature, data.Humidity, data.Light, data.Device_ID>>

\* The row the INSERT writes for data: each listed column takes the
\* argument at its position.
Row(data) ==
    [c \in FiveColumns |->
        InsertArgs(data)[CHOOSE i \in 1..Len(InsertColumns) : InsertColumns[i] = c]]

\* What the store does with the INSERT: executes it, refuses it (an error),
\* or executes it with no row affected (a rule or trigger on the relation
\* turns the row away; the command tag reports 0).
InsertFaults == {"none", "refuse", "zero"}

\* db.conn.Exec of the INSERT on connection state cn: an error when the
\* connection is not open, the relation or a column is missing, or the
\* store refuses; otherwise the command tag's affected-row count.
ExecInsert(cn, sch, rws, data, fault) ==
    IF cn # "open" \/ fault = "refuse" \/ ~sch.exists
          \/ ~(FiveColumns \subseteq sch.columns)
    THEN [err |-> TRUE, rows |-> rws, affected |-> 0]
    ELSE IF fault = "zero"
    THEN [err |-> FALSE, rows |-> rws, affected |-> 0]
    ELSE [err |-> FALSE, rows |-> Append(rws, Row(data)), affected |-> 1]

\* The results of an Exec that is in progress when another goroutine closes
\* the connection under it (pgx.Conn is not safe for concurrent use): the
\* store's answer arrives, or the store executes the statement and the
\* answer is lost with the connection, or the statement never runs.
ExecDuringClose(sch, rws, data, fault) ==
    LET r == ExecInsert("open", sch, rws, data, fault)
    IN  { r,
          [err |-> TRUE, rows |-> r.rows, affected |-> 0],
          [err |-> TRUE, rows |-> rws, affected |-> 0] }

\* An InsertSensorData that reports an insert affecting no row as an error.
InsertResult_ZeroIsError(r) ==
    [err |-> r.err \/ r.affected = 0, rows |-> r.rows, execs |-> 1,
     affected |-> r.affected, execErr |-> r.err]

\* InsertSensorData after its Exec returned r: Exec's error is returned;
\* the affected-row count is logged and does not change the result.
InsertResult(r) ==
    [err |-> r.err, rows |-> r.rows, execs |-> 1, affected |-> r.affected,
     execErr |-> r.err]

\* An InsertSensorData that executes the INSERT again when the store refuses it.
InsertSensorData_Retry(cn, sch, rws, data, fault) ==
    LET r == ExecInsert(cn, sch, rws, data, fault)
        again == ExecInsert(cn, sch, rws, data, "none")
    IN  IF r.err /\ fault = "refuse"
        THEN [InsertResult(again) EXCEPT !.execs = 2]
        ELSE InsertResult(r)

\* TimescaleDB.InsertSensorData: one Exec of one INSERT, never retried.
InsertSensorData(cn, sch, rws, data, fault) ==
    InsertResult(ExecInsert(cn, sch, rws, data, fault))

\* ---------------------------------------------------------- configuration

TCP == <<"t", "c", "p", ":", "/", "/">>
SSL == <<"s", "s", "l", ":", "/", "/">>
WS == <<"w", "s", ":", "/", "/">>
WSS == <<"w", "s", "s", ":", "/", "/">>
HTTP == <<"h", "t", "t", "p", ":", "/", "/">>
HTTPS == <<"h", "t", "t", "p", "s", ":", "/", "/">>

\* strings.HasPrefix(s, prefix)
HasPrefix(s, prefix) ==
    Len(s) >= Len(prefix) /\ SubSeq(s, 1, Len(prefix)) = prefix

\* strings.Contains(s, c) for a one-character c
Contains(s, c) == \E i \in 1..Len(s) : s[i] = c

\* The slice expression s[k:]: a run-time panic when k exceeds len(s).
SliceFrom(s, k) ==
    IF k > Len(s)
    THEN [panic |-> TRUE, s |-> <<>>]
    ELSE [panic |-> FALSE, s |-> SubSeq(s, k + 1, Len(s))]

\* The decimal text of a natural number: the %d verb.
RECURSIVE Itoa(_)
Itoa(n) ==
    LET d == CHOOSE c \in Digits : DigitVal(c) = n % 10
    IN  IF n < 10 THEN <<d>> ELSE Itoa(n \div 10) \o <<d>>

\* fmt.Sprintf("%s:%d", host, port)
WithPort(host, port) == host \o <<":">> \o Itoa(port)

\* GetDefaultConfig: https://mqtt.ponytojas.dev, port 8883 (the host name
\* shortened to one letter).
DefaultConfig == [Broker |-> HTTPS \o <<"h">>, Port |-> 8883]

\* Config.GetMQTTBrokerURL.  The first branch tests the four broker schemes
\* and looks for a port in brokerURL[6:], whatever the length of the scheme
\* that matched.
GetMQTTBrokerURL(c) ==
    LET brokerURL == c.Broker
    IN  IF \/ HasPrefix(brokerURL, TCP) \/ HasPrefix(brokerURL, SSL)
           \/ HasPrefix(brokerURL, WS) \/ HasPrefix(brokerURL, WSS)
        THEN IF SliceFrom(brokerURL, 6).panic
             THEN [panic |-> TRUE, url |-> <<>>]
             ELSE IF ~Contains(SliceFrom(brokerURL, 6).s, ":")
             THEN [panic |-> FALSE, url |-> WithPort(brokerURL, c.Port)]
             ELSE [panic |-> FALSE, url |-> brokerURL]
        ELSE IF HasPrefix(brokerURL, HTTP)
        THEN LET host == SliceFrom(brokerURL, 7).s
             IN  [panic |-> FALSE,
                  url |-> TCP \o (IF ~Contains(host, ":")
                                  THEN WithPort(host, c.Port) ELSE host)]
        ELSE IF HasPrefix(brokerURL, HTTPS)
        THEN LET host == SliceFrom(brokerURL, 8).s
             IN  [panic |-> FALSE,
                  url |-> SSL \o (IF ~Contains(host, ":")
                                  THEN WithPort(host, c.Port) ELSE host)]
        ELSE [panic |-> FALSE, url |-> TCP \o WithPort(brokerURL, c.Port)]

\* The client mqtt.NewClient builds: the broker URL given to AddBroker and
\* whether a TLS configuration was installed.
NoClient == [built |-> FALSE, url |-> <<>>, tls |-> FALSE]

\* NewClient(cfg, db): a TLS configuration is set when the broker URL starts
\* with ssl:// or wss://.  A panic in GetMQTTBrokerURL leaves no client.
NewClient(c) ==
    LET u == GetMQTTBrokerURL(c)
    IN  IF u.panic
        THEN [panic |-> TRUE, client |-> NoClient]
        ELSE [panic |-> FALSE,
              client |-> [built |-> TRUE, url |-> u.url,
                          tls |-> HasPrefix(u.url, SSL) \/ HasPrefix(u.url, WSS)]]

\* The broker settings the URL construction is checked against: each
\* scheme, and no scheme, before an empty host, a host, a host with a port,
\* a port alone, and a host behind credentials.
BrokerSchemes == {TCP, SSL, WS, WSS, HTTP, HTTPS, <<>>}
BrokerHosts ==
    { <<>>, <<"h">>, <<"h", ":", "9">>, <<":", "9">>, <<"u", ":", "p", "@", "h">> }
BrokerPorts == {1883, 8883}
AllConfigs ==
    { [Broker |-> sch \o h, Port |-> p] :
        sch \in BrokerSchemes, h \in BrokerHosts, p \in BrokerPorts }

\* A Close that reports a connection already closed as an error.
CloseConn_ErrIfClosed(cn, fault) ==
    IF cn = "closed"
    THEN [err |-> TRUE, conn |-> cn]
    ELSE [err |-> fault, conn |-> "closed"]

\* TimescaleDB.Close: db.conn.Close(ctx).  pgx releases the connection,
\* returning an error of the transport if closing it fails; on a
\* connection already closed it does nothing and returns nil.
CloseConn(cn, fault) ==
    IF cn = "closed"
    THEN [err |-> FALSE, conn |-> cn]
    ELSE [err |-> fault, conn |-> "closed"]

\* ------------------------------------------------------------------ state

VARIABLES
    build,        \* which InitializeTable variant the binary was built with
    schema,       \* the store: catalog state of the target relation
    rows,         \* the store: rows appended to the relation, in order
    pc,           \* main's position
    run,          \* how many times the process has been started
    conn,         \* db.conn: "none", "open", "closed", "leaked" (exit without Close)
    link,         \* the broker transport: "disconnected", "connected", "reconnecting"
    route,        \* the handler is registered in the client (Subscribe was called)
    brokerSub,    \* the broker holds the topic subscription for this session
    inbox,        \* the message the handler was called with and has yet to
                  \* decode, if any: the client delivers in order, calling
                  \* the handler for one message at a time
    clock,        \* the wall clock
    delivered,    \* messages dispatched so far
    handled,      \* processMessage invocations completed so far
    insertCalls,  \* InsertSensorData calls so far
    last,         \* the last processMessage invocation of this run that ended
    initLog,      \* the two most recent InitializeTable calls, older first
    runlog,       \* what the current run of main has done
    cfg,          \* the loaded configuration: broker string and port
    client,       \* the MQTT client NewClient built in this run
    exec,         \* the handler's InsertSensorData call in progress, if any
    closeLog      \* the two most recent Close calls on this run's gateway

vars == <<build, schema, rows, pc, run, conn, link, route, brokerSub, inbox,
          clock, delivered, handled, insertCalls, last, initLog, runlog, cfg,
          client, exec, closeLog>>

storeVars == <<schema, rows>>
sessionVars == <<pc, run, conn, link, route, brokerSub>>
countVars == <<delivered, handled, insertCalls>>

\* mqtt.NewClientOptions() starts a clean session on every CONNECT, and
\* NewClient does not change that; opts.SetAutoReconnect(true).
CleanSession == TRUE
AutoReconnect == TRUE

NoLast ==
    [payload |-> Malformed, start |-> 0, outcome |-> "none", data |-> NoRecord,
     calls |-> 0, execs |-> 0, affected |-> 0, execErr |-> FALSE,
     connAt |-> "none", raced |-> FALSE, rowsBefore |-> <<>>]

\* No InsertSensorData call is in progress.
NoExec ==
    [active |-> FALSE, payload |-> Malformed, start |-> 0, data |-> NoRecord,
     raced |-> FALSE]

NewRun ==
    [initCalls |-> 0, init |-> "none", connect |-> "none", subscribe |-> "none",
     handled |-> 0, inserts |-> 0, abortAt |-> "none", disconnect |-> "none"]

Init ==
    /\ build \in {"earlier", "later"}
    /\ schema = NoSchema
    /\ rows = <<>>
    /\ pc = "start"
    /\ run = 1
    /\ conn = "none"
    /\ link = "disconnected"
    /\ route = FALSE
    /\ brokerSub = FALSE
    /\ inbox = <<>>
    /\ clock = 3
    /\ delivered = 0
    /\ handled = 0
    /\ insertCalls = 0
    /\ last = NoLast
    /\ initLog = <<>>
    /\ runlog = NewRun
    /\ cfg = DefaultConfig
    /\ client = NoClient
    /\ exec = NoExec
    /\ closeLog = <<>>

\* initLog keeps the two most recent InitializeTable calls.
Logged(log, call) == IF Len(log) < 2 THEN Append(log, call) ELSE <<log[2], call>>

\* log.Fatalf: the process exits at once; deferred calls do not run (the
\* store connection is left to the store to time out, the broker session
\* ends with the socket, no DISCONNECT sent).  rl is the run's log up to
\* the failing step.
Fatal(step, rl) ==
    /\ pc' = "aborted"
    /\ conn' = IF conn = "open" THEN "leaked" ELSE conn
    /\ link' = "disconnected"
    /\ route' = FALSE
    /\ brokerSub' = FALSE
    /\ inbox' = <<>>
    /\ runlog' = [rl EXCEPT !.abortAt = step]

\* --------------------------------------------------------------------- main

\* main: database.NewTimescaleDB(cfg); a failure is fatal; defer db.Close().
NewTimescaleDB ==
    /\ pc = "start"
    /\ \E ok \in BOOLEAN :
          IF ok
          THEN /\ conn' = "open"
               /\ pc' = "initTable"
               /\ UNCHANGED <<link, route, brokerSub, inbox, runlog>>
          ELSE Fatal("NewTimescaleDB", runlog)
    /\ UNCHANGED <<build, cfg, client, exec, closeLog>>
    /\ UNCHANGED <<storeVars, run, clock, countVars, last, initLog>>

\* A main that logs an InitializeTable error and carries on.
MainInitializeTable_NotFatal ==
    /\ pc = "initTable"
    /\ \E fault \in InitFaults :
          LET r == IF build = "earlier"
                   THEN InitializeTableEarlier(schema, fault)
                   ELSE InitializeTable(schema, fault)
          IN  /\ schema' = r.schema
              /\ initLog' = Logged(initLog,
                     [err |-> r.err, ddl |-> r.ddl, before |-> schema,
                      after |-> r.schema, refused |-> r.refused])
              /\ pc' = "connect"
              /\ runlog' = [runlog EXCEPT !.initCalls = @ + 1,
                                          !.init = IF r.err THEN "err" ELSE "ok"]
              /\ UNCHANGED <<conn, link, route, brokerSub, inbox>>
    /\ UNCHANGED <<build, cfg, client, exec, closeLog>>
    /\ UNCHANGED <<rows, run, clock, countVars, last>>

\* main: db.InitializeTable(); a failure is fatal.
MainInitializeTable ==
    /\ pc = "initTable"
    /\ \E fault \in InitFaults :
          LET r == IF build = "earlier"
                   THEN InitializeTableEarlier(schema, fault)
                   ELSE InitializeTable(schema, fault)
              rl == [runlog EXCEPT !.initCalls = @ + 1,
                                   !.init = IF r.err THEN "err" ELSE "ok"]
          IN  /\ schema' = r.schema
              /\ initLog' = Logged(initLog,
                     [err |-> r.err, ddl |-> r.ddl, before |-> schema,
                      after |-> r.schema, refused |-> r.refused])
              /\ IF r.err
                 THEN Fatal("InitializeTable", rl)
                 ELSE /\ pc' = "connect"
                      /\ runlog' = rl
                      /\ UNCHANGED <<conn, link, route, brokerSub, inbox>>
    /\ UNCHANGED <<build, cfg, client, exec, closeLog>>
    /\ UNCHANGED <<rows, run, clock, countVars, last>>

\* A main that logs a Connect error and carries on to Subscribe.
Connect_NotFatal ==
    /\ pc = "connect"
    /\ \E ok \in BOOLEAN :
          /\ link' = IF ok THEN "connected" ELSE link
          /\ pc' = "subscribe"
          /\ runlog' = [runlog EXCEPT !.connect = IF ok THEN "ok" ELSE "err"]
          /\ client' = NewClient(cfg).client
          /\ UNCHANGED <<conn, route, brokerSub, inbox>>
    /\ UNCHANGED <<build, cfg, exec, closeLog>>
    /\ UNCHANGED <<storeVars, run, clock, countVars, last, initLog>>

\* main: mqtt.NewClient(cfg, db), then mqttClient.Connect(); a Connect
\* failure is fatal; defer mqttClient.Disconnect().  A panic raised while
\* NewClient builds the broker URL unwinds main: the deferred db.Close()
\* runs and the process ends.
Connect ==
    /\ pc = "connect"
    /\ LET nc == NewClient(cfg)
       IN  IF nc.panic
           THEN /\ pc' = "aborted"
                /\ conn' = CloseConn(conn, FALSE).conn
                /\ closeLog' = Logged(closeLog,
                       [err |-> FALSE, before |-> conn,
                        after |-> CloseConn(conn, FALSE).conn])
                /\ runlog' = [runlog EXCEPT !.connect = "panic",
                                            !.abortAt = "NewClient"]
                /\ UNCHANGED <<client, link, route, brokerSub, inbox>>
           ELSE /\ client' = nc.client
                /\ \E ok \in BOOLEAN :
                      LET rl == [runlog EXCEPT
                                    !.connect = IF ok THEN "ok" ELSE "err"]
                      IN  IF ok
                          THEN /\ link' = "connected"
                               /\ pc' = "subscribe"
                               /\ runlog' = rl
                               /\ UNCHANGED <<conn, route, brokerSub, inbox>>
                          ELSE Fatal("Connect", rl)
                /\ UNCHANGED closeLog
    /\ UNCHANGED <<build, cfg, exec>>
    /\ UNCHANGED <<storeVars, run, clock, countVars, last, initLog>>

\* main: mqttClient.Subscribe(), which registers the handler for the topic
\* at QoS 0; a failure (the broker refuses, or the transport is down) is fatal.
Subscribe ==
    /\ pc = "subscribe"
    /\ \E ok \in BOOLEAN :
          LET done == ok /\ link = "connected"
              rl == [runlog EXCEPT !.subscribe = IF done THEN "ok" ELSE "err"]
          IN  IF done
              THEN /\ route' = TRUE
                   /\ brokerSub' = TRUE
                   /\ pc' = "running"
                   /\ runlog' = rl
                   /\ UNCHANGED <<conn, link, inbox>>
              ELSE Fatal("Subscribe", rl)
    /\ UNCHANGED <<build, cfg, client, exec, closeLog>>
    /\ UNCHANGED <<storeVars, run, clock, countVars, last, initLog>>

\* main: <-sig, SIGINT or SIGTERM arrives; main goes on to return.
Signal ==
    /\ pc = "running"
    /\ pc' = "shutdown"
    /\ UNCHANGED <<build, cfg, client, exec, closeLog>>
    /\ UNCHANGED <<storeVars, run, conn, link, route, brokerSub, inbox,
                   clock, countVars, last, initLog, runlog>>

\* The deferred mqttClient.Disconnect(), run first (last deferred).
Disconnect ==
    /\ pc = "shutdown"
    /\ pc' = "closing"
    /\ link' = "disconnected"
    /\ brokerSub' = FALSE
    /\ runlog' = [runlog EXCEPT !.disconnect = "done"]
    /\ UNCHANGED <<build, cfg, client, exec, closeLog>>
    /\ UNCHANGED <<storeVars, run, conn, route, inbox, clock, countVars,
                   last, initLog>>

\* What a processMessage invocation that has ended leaves on record.
Returned(payload, start, outcome, data, ins, called, cn, raced, before) ==
    [payload |-> payload, start |-> start, outcome |-> outcome, data |-> data,
     calls |-> IF called THEN 1 ELSE 0,
     execs |-> IF called THEN ins.execs ELSE 0,
     affected |-> IF called THEN ins.affected ELSE 0,
     execErr |-> called /\ ins.execErr,
     connAt |-> IF called THEN cn ELSE "none",
     raced |-> raced, rowsBefore |-> before]

\* A Close that runs before the broker session is disconnected.
Close_BeforeDisconnect ==
    /\ pc = "shutdown"
    /\ \E fault \in BOOLEAN :
          LET r == CloseConn(conn, fault)
          IN  /\ conn' = r.conn
              /\ closeLog' = Logged(closeLog,
                     [err |-> r.err, before |-> conn, after |-> r.conn])
    /\ pc' = "returning"
    /\ exec' = IF exec.active THEN [exec EXCEPT !.raced = TRUE] ELSE exec
    /\ UNCHANGED <<build, cfg, client>>
    /\ UNCHANGED <<storeVars, run, link, route, brokerSub, inbox, clock,
                   countVars, last, initLog, runlog>>

\* The deferred db.Close(), run second; main discards its result.  Nothing
\* makes main wait for a handler: a handler that is inside its
\* InsertSensorData call has the connection closed under it.
Close ==
    /\ pc = "closing"
    /\ \E fault \in BOOLEAN :
          LET r == CloseConn(conn, fault)
          IN  /\ conn' = r.conn
              /\ closeLog' = Logged(closeLog,
                     [err |-> r.err, before |-> conn, after |-> r.conn])
    /\ pc' = "returning"
    /\ exec' = IF exec.active THEN [exec EXCEPT !.raced = TRUE] ELSE exec
    /\ UNCHANGED <<build, cfg, client>>
    /\ UNCHANGED <<storeVars, run, link, route, brokerSub, inbox, clock,
                   countVars, last, initLog, runlog>>

\* main returns: the process exits and its goroutines end with it.  An
\* INSERT still in progress is abandoned (the handler never returns); the
\* store may have executed it.
Exit ==
    /\ pc = "returning"
    /\ pc' = "exited"
    /\ route' = FALSE
    /\ inbox' = <<>>
    /\ exec' = NoExec
    /\ IF exec.active
       THEN \E fault \in InsertFaults :
               \E r \in ExecDuringClose(schema, rows, exec.data, fault) :
                  /\ rows' = r.rows
                  /\ last' = Returned(exec.payload, exec.start, "abandoned",
                                 exec.data, InsertResult(r), TRUE, "open", TRUE,
                                 rows)
       ELSE UNCHANGED <<rows, last>>
    /\ UNCHANGED <<build, cfg, client, closeLog>>
    /\ UNCHANGED <<schema, run, conn, link, brokerSub, clock, countVars,
                   initLog, runlog>>

\* The binary is started again against the same store.
Restart ==
    /\ pc \in {"aborted", "exited"}
    /\ run < MaxRuns
    /\ pc' = "start"
    /\ run' = run + 1
    /\ conn' = "none"
    /\ client' = NoClient
    /\ closeLog' = <<>>
    /\ last' = NoLast
    /\ runlog' = NewRun
    /\ UNCHANGED <<build, cfg, exec>>
    /\ UNCHANGED <<storeVars, link, route, brokerSub, inbox, clock, countVars,
                   initLog>>

\* ------------------------------------------------------------ broker session

\* The transport drops.  With a clean session the broker discards the
\* session's subscriptions; the client keeps its handler and starts to
\* reconnect.
ConnectionLost ==
    /\ link = "connected"
    /\ link' = IF AutoReconnect THEN "reconnecting" ELSE "disconnected"
    /\ brokerSub' = IF CleanSession THEN FALSE ELSE brokerSub
    /\ UNCHANGED <<build, cfg, client, exec, closeLog>>
    /\ UNCHANGED <<storeVars, pc, run, conn, route, inbox, clock, countVars,
                   last, initLog, runlog>>

\* The automatic reconnect succeeds: a new CONNECT; nothing in NewClient
\* (no OnConnect handler) subscribes again.
Reconnect ==
    /\ link = "reconnecting"
    /\ link' = "connected"
    /\ UNCHANGED <<build, cfg, client, exec, closeLog>>
    /\ UNCHANGED <<storeVars, pc, run, conn, route, brokerSub, inbox, clock,
                   countVars, last, initLog, runlog>>

\* A message published on the topic reaches the client and is handed to the
\* handler registered by Subscribe.  The client calls the handler for one
\* message at a time (its default, ordered delivery): not while an earlier
\* call has yet to return.
Deliver ==
    /\ link = "connected"
    /\ brokerSub
    /\ route
    /\ delivered < MaxMsgs
    /\ inbox = <<>>
    /\ ~exec.active
    /\ \E p \in Payloads : inbox' = Append(inbox, p)
    /\ delivered' = delivered + 1
    /\ UNCHANGED <<build, cfg, client, exec, closeLog>>
    /\ UNCHANGED <<storeVars, sessionVars, clock, handled, insertCalls, last,
                   initLog, runlog>>

\* A handler whose failure tears the broker session down.
processMessage_DropsSession ==
    /\ inbox # <<>>
    /\ ~exec.active
    /\ \E d \in {0, 1} :
          LET payload == Head(inbox)
              now == clock + d
              dec == DecodeMessage(payload, now)
              called == dec.outcome = "insert"
              ins == InsertSensorData(conn, schema, rows, dec.data, "none")
          IN  /\ clock' = now
              /\ inbox' = Tail(inbox)
              /\ insertCalls' = insertCalls + (IF called THEN 1 ELSE 0)
              /\ IF called /\ conn = "open"
                 THEN /\ exec' = [active |-> TRUE, payload |-> payload,
                                  start |-> clock, data |-> dec.data,
                                  raced |-> FALSE]
                      /\ runlog' = [runlog EXCEPT !.inserts = @ + 1]
                      /\ UNCHANGED <<handled, last, link>>
                 ELSE /\ handled' = handled + 1
                      /\ last' = Returned(payload, clock,
                                     IF called THEN "insert_err" ELSE dec.outcome,
                                     dec.data, ins, called, conn, FALSE, rows)
                      /\ runlog' = [runlog EXCEPT
                                       !.handled = @ + 1,
                                       !.inserts = @ + (IF called THEN 1 ELSE 0)]
                      /\ link' = "disconnected"
                      /\ UNCHANGED exec
    /\ UNCHANGED <<build, cfg, client, closeLog>>
    /\ UNCHANGED <<storeVars, pc, run, conn, route, brokerSub, delivered,
                   initLog>>

\* The handler, c.processMessage(msg.Payload()), from its entry to its
\* return or, for a record with a device_id, to the point where
\* InsertSensorData has sent its INSERT on an open connection.  d is the
\* time that passes between the start of the call and its reading of the
\* clock.  On a connection that is not open the call fails at once.
processMessage ==
    /\ inbox # <<>>
    /\ ~exec.active
    /\ \E d \in {0, 1} :
          LET payload == Head(inbox)
              now == clock + d
              dec == DecodeMessage(payload, now)
              called == dec.outcome = "insert"
              ins == InsertSensorData(conn, schema, rows, dec.data, "none")
          IN  /\ clock' = now
              /\ inbox' = Tail(inbox)
              /\ insertCalls' = insertCalls + (IF called THEN 1 ELSE 0)
              /\ IF called /\ conn = "open"
                 THEN /\ exec' = [active |-> TRUE, payload |-> payload,
                                  start |-> clock, data |-> dec.data,
                                  raced |-> FALSE]
                      /\ runlog' = [runlog EXCEPT !.inserts = @ + 1]
                      /\ UNCHANGED <<handled, last>>
                 ELSE /\ handled' = handled + 1
                      /\ last' = Returned(payload, clock,
                                     IF called THEN "insert_err" ELSE dec.outcome,
                                     dec.data, ins, called, conn, FALSE, rows)
                      /\ runlog' = [runlog EXCEPT
                                       !.handled = @ + 1,
                                       !.inserts = @ + (IF called THEN 1 ELSE 0)]
                      /\ UNCHANGED exec
    /\ UNCHANGED <<build, cfg, client, closeLog>>
    /\ UNCHANGED <<storeVars, sessionVars, delivered, initLog>>

\* The INSERT the handler is waiting on is answered: InsertSensorData
\* returns and processMessage logs the result and returns.  fault is what
\* the store does with the statement.
InsertReturns ==
    /\ exec.active
    /\ \E fault \in InsertFaults :
          \E ins \in (IF exec.raced
                      THEN {InsertResult(r) :
                               r \in ExecDuringClose(schema, rows, exec.data, fault)}
                      ELSE {InsertSensorData(conn, schema, rows, exec.data, fault)}) :
             /\ rows' = ins.rows
             /\ last' = Returned(exec.payload, exec.start,
                            IF ins.err THEN "insert_err" ELSE "stored",
                            exec.data, ins, TRUE, "open", exec.raced, rows)
    /\ exec' = NoExec
    /\ handled' = handled + 1
    /\ runlog' = [runlog EXCEPT !.handled = @ + 1]
    /\ UNCHANGED <<build, cfg, client, closeLog>>
    /\ UNCHANGED <<schema, sessionVars, inbox, clock, delivered, insertCalls,
                   initLog>>

Next ==
    \/ NewTimescaleDB
    \/ MainInitializeTable
    \/ Connect
    \/ Subscribe
    \/ Signal
    \/ Disconnect
    \/ Close
    \/ Exit
    \/ Restart
    \/ ConnectionLost
    \/ Reconnect
    \/ Deliver
    \/ processMessage
    \/ InsertReturns

Spec == Init /\ [][Next]_vars

\* One run of main, from its start to its exit or abort.
RunNext ==
    \/ NewTimescaleDB
    \/ MainInitializeTable
    \/ Connect
    \/ Subscribe
    \/ Signal
    \/ Disconnect
    \/ Close
    \/ Exit
    \/ ConnectionLost
    \/ Reconnect
    \/ Deliver
    \/ processMessage
    \/ InsertReturns

\* Once the signal is received the main goroutine runs to its end: each
\* deferred call returns (Disconnect waits at most its quiesce time) and
\* main returns.  Nothing is assumed of the broker, the store or the handler.
FairSpec ==
    /\ Init
    /\ [][RunNext]_vars
    /\ WF_vars(Disconnect)
    /\ WF_vars(Close)
    /\ WF_vars(Exit)

\* ------------------------------------------- one handler invocation

\* The service up and subscribed (a state of Spec: see HandlerInitReached)
\* with one message, of any shape, handed to the handler.
Running ==
    /\ build = "later"
    /\ schema = [exists |-> TRUE, columns |-> FiveColumns, hypertable |-> TRUE]
    /\ pc = "running"
    /\ run = 1
    /\ conn = "open"
    /\ link = "connected"
    /\ route = TRUE
    /\ brokerSub = TRUE
    /\ clock = 3
    /\ delivered = 1
    /\ handled = 0
    /\ insertCalls = 0
    /\ last = NoLast
    /\ initLog = << [err |-> FALSE, ddl |-> <<"create_table", "create_hypertable">>,
                     before |-> NoSchema,
                     after |-> [exists |-> TRUE, columns |-> FiveColumns,
                                hypertable |-> TRUE],
                     refused |-> FALSE] >>
    /\ runlog = [initCalls |-> 1, init |-> "ok", connect |-> "ok",
                 subscribe |-> "ok", handled |-> 0, inserts |-> 0,
                 abortAt |-> "none", disconnect |-> "none"]
    /\ cfg = DefaultConfig
    /\ client = NewClient(DefaultConfig).client
    /\ exec = NoExec
    /\ closeLog = <<>>

HandlerInit ==
    /\ Running
    /\ rows = <<>>
    /\ inbox \in {<<p>> : p \in AllPayloads}

HandlerNext == processMessage \/ InsertReturns

SpecHandler == HandlerInit /\ [][HandlerNext]_vars

\* Spec reaches the state SpecHandler starts from, a message in the handler.
HandlerInitReached == Running /\ rows = <<>> /\ inbox # <<>>

\* ------------------------------------------- building the client

\* main about to build the MQTT client, under any of the broker settings.
ConfigInit ==
    /\ build = "later"
    /\ schema = [exists |-> TRUE, columns |-> FiveColumns, hypertable |-> TRUE]
    /\ rows = <<>>
    /\ pc = "connect"
    /\ run = 1
    /\ conn = "open"
    /\ link = "disconnected"
    /\ route = FALSE
    /\ brokerSub = FALSE
    /\ inbox = <<>>
    /\ clock = 3
    /\ delivered = 0
    /\ handled = 0
    /\ insertCalls = 0
    /\ last = NoLast
    /\ initLog = << [err |-> FALSE, ddl |-> <<"create_table", "create_hypertable">>,
                     before |-> NoSchema,
                     after |-> [exists |-> TRUE, columns |-> FiveColumns,
                                hypertable |-> TRUE],
                     refused |-> FALSE] >>
    /\ runlog = [NewRun EXCEPT !.initCalls = 1, !.init = "ok"]
    /\ cfg \in AllConfigs
    /\ client = NoClient
    /\ exec = NoExec
    /\ closeLog = <<>>

ConfigNext == Connect

SpecConfig == ConfigInit /\ [][ConfigNext]_vars

\* ------------------------------------------- the store gateway by itself

\* The gateway as NewTimescaleDB returns it, its methods then called in any
\* order: what the TimescaleDB type allows a caller, of which main is one.
GatewayInit ==
    /\ build \in {"earlier", "later"}
    /\ schema = NoSchema
    /\ rows = <<>>
    /\ pc = "initTable"
    /\ run = 1
    /\ conn = "open"
    /\ link = "disconnected"
    /\ route = FALSE
    /\ brokerSub = FALSE
    /\ inbox = <<>>
    /\ clock = 3
    /\ delivered = 0
    /\ handled = 0
    /\ insertCalls = 0
    /\ last = NoLast
    /\ initLog = <<>>
    /\ runlog = NewRun
    /\ cfg = DefaultConfig
    /\ client = NoClient
    /\ exec = NoExec
    /\ closeLog = <<>>

\* db.InitializeTable(): on a connection that is not open its first
\* statement, the catalog query, fails.
CallInitializeTable ==
    /\ \E fault \in InitFaults :
          LET f == IF conn = "open" THEN fault ELSE "query"
              r == IF build = "earlier"
                   THEN InitializeTableEarlier(schema, f)
                   ELSE InitializeTable(schema, f)
          IN  /\ schema' = r.schema
              /\ initLog' = Logged(initLog,
                     [err |-> r.err, ddl |-> r.ddl, before |-> schema,
                      after |-> r.schema, refused |-> r.refused])
    /\ UNCHANGED <<build, cfg, client, exec, closeLog>>
    /\ UNCHANGED <<rows, sessionVars, inbox, clock, countVars, last, runlog>>

\* db.Close()
CallClose ==
    /\ \E fault \in BOOLEAN :
          LET r == CloseConn(conn, fault)
          IN  /\ conn' = r.conn
              /\ closeLog' = Logged(closeLog,
                     [err |-> r.err, before |-> conn, after |-> r.conn])
    /\ UNCHANGED <<build, cfg, client, exec>>
    /\ UNCHANGED <<storeVars, pc, run, link, route, brokerSub, inbox, clock,
                   countVars, last, initLog, runlog>>

GatewayNext == CallInitializeTable \/ CallClose

SpecGateway == GatewayInit /\ [][GatewayNext]_vars

\* ------------------------------------------------------------------ claims

Field(p, k) == p.f[k]

Handled == last.outcome # "none"

C2_RowsHaveDeviceId ==
    \A i \in 1..Len(rows) : rows[i].device_id # <<>>

\* C3: in each run of main InitializeTable is called at most once, and
\* Connect, Subscribe, the handler and InsertSensorData happen only after
\* that one call has returned success.
C3_InitBeforeInsert ==
    /\ runlog.initCalls <= 1
    /\ (\/ runlog.connect # "none"
        \/ runlog.subscribe # "none"
        \/ runlog.handled > 0
        \/ runlog.inserts > 0
        \/ inbox # <<>>
        \/ route
        \/ link # "disconnected")
          => (runlog.initCalls = 1 /\ runlog.init = "ok")

C3_Witness ==
    /\ runlog.inserts > 0
    /\ last.outcome = "stored"
    /\ runlog.initCalls = 1

\* C4: of two InitializeTable calls in sequence on a store that refuses no
\* statement, neither returns an error, and the second issues no CREATE
\* TABLE or create_hypertable and leaves the schema as it found it.
C4_InitializeTwice ==
    (Len(initLog) = 2 /\ ~initLog[1].refused /\ ~initLog[2].refused)
        => /\ ~initLog[1].err
           /\ ~initLog[2].err
           /\ initLog[2].ddl = <<>>
           /\ initLog[2].after = initLog[2].before

\* C5: whenever InitializeTable returns success the relation exists with
\* the five columns and is a hypertable, whatever earlier calls did.
C5_SuccessMeansHypertable ==
    \A i \in 1..Len(initLog) :
        ~initLog[i].err
            => /\ initLog[i].after.exists
               /\ initLog[i].after.columns = FiveColumns
               /\ initLog[i].after.hypertable

\* C6: whenever the service is running with its handler registered and the
\* transport connected (after a reconnect as before any loss), the broker
\* holds the subscription, so that messages published on the topic are
\* delivered.
C6_SubscribedAfterReconnect ==
    (pc = "running" /\ route /\ link = "connected") => brokerSub

\* C7: a handler invocation, failed or not, changes nothing but the store's
\* rows (and consumes its message): main's position, the store connection,
\* the transport, the registered handler, the broker's subscription and the
\* schema are as they were.
C7_HandlerLeavesSession ==
    [][handled' # handled
          => /\ UNCHANGED <<pc, run, conn, link, route, brokerSub, schema, build>>
             /\ last'.outcome \in {"unmarshal", "device_id", "insert_err", "stored"}]_vars

\* A message failed, the session stayed subscribed, and a later message
\* was stored.
C7_Witness ==
    /\ run = 1
    /\ runlog.handled = 2
    /\ Len(rows) = 1
    /\ last.outcome = "stored"
    /\ pc = "running"
    /\ link = "connected"
    /\ brokerSub

\* C8: a message is handled once (never put back), its handling calls
\* InsertSensorData at most once, that call executes at most one INSERT, and
\* when the call returns an error (the connection not having been closed
\* under it) the store's rows are as they were.
C8_AtMostOneInsert ==
    /\ handled + Len(inbox) + (IF exec.active THEN 1 ELSE 0) <= delivered
    /\ insertCalls + Len(inbox) <= delivered
    /\ last.calls <= 1
    /\ last.execs <= last.calls
    /\ Len(rows) <= insertCalls
    /\ (last.outcome = "insert_err" /\ ~last.raced) => rows = last.rowsBefore

C8_Witness ==
    /\ last.outcome = "insert_err"
    /\ last.calls = 1
    /\ conn = "open"
    /\ inbox = <<>>
    /\ rows = last.rowsBefore

\* C9: a failed startup step aborts the process at that step: after a
\* failed InitializeTable no Connect is attempted, after a failed Connect no
\* Subscribe, and after a failure of any of the three no message is handled.
C9_FatalStartup ==
    /\ runlog.init = "err" => (runlog.connect = "none" /\ runlog.subscribe = "none")
    /\ runlog.connect = "err" => runlog.subscribe = "none"
    /\ ("err" \in {runlog.init, runlog.connect, runlog.subscribe})
          => /\ pc = "aborted"
             /\ runlog.handled = 0
             /\ runlog.inserts = 0
             /\ inbox = <<>>
             /\ ~route

C9_Witness ==
    /\ runlog.init = "ok"
    /\ runlog.connect = "err"
    /\ pc = "aborted"

\* The timestamp field is absent, is not a string, or is a string that is
\* not an RFC3339 date-time with a zone designator.
TimestampUnusable(p) ==
    \/ Field(p, "timestamp").t # "string"
    \/ Len(Field(p, "timestamp").s) # 2
    \/ Field(p, "timestamp").s[1] \notin DateTimes
    \/ Field(p, "timestamp").s[2] \notin Offsets

\* C10: with a string device_id, a timestamp that is absent, not a string,
\* or a string that does not parse as RFC3339 does not reject the message:
\* InsertSensorData is called with a timestamp read from the clock during
\* the handling (not before its start, not after its end), and the row is
\* appended unless the store refuses the INSERT or reports no row affected.
C10_TimestampFallback ==
    (/\ Handled
     /\ last.payload.kind # "malformed"
     /\ Field(last.payload, "device_id").t = "string"
     /\ TimestampUnusable(last.payload))
        => /\ last.calls = 1
           /\ last.start <= last.data.Timestamp
           /\ last.data.Timestamp <= clock
           /\ last.outcome \in {"stored", "insert_err"}
           /\ (last.outcome = "stored" /\ last.affected = 1)
                 => rows = Append(last.rowsBefore, Row(last.data))

C10_Witness ==
    /\ last.outcome = "stored"
    /\ Field(last.payload, "timestamp") = Str(<<"dt1">>)
    /\ last.data.Timestamp > last.start
    /\ rows = <<Row(last.data)>>

Readings == {"temperature", "humidity", "light"}

\* The reading of a record that a payload key feeds.
ReadingOf(data, k) ==
    CASE k = "temperature" -> data.Temperature
      [] k = "humidity" -> data.Humidity
      [] OTHER -> data.Light

\* The text is, over its whole length, an optionally signed decimal number:
\* digits with at most one decimal point and nothing else.
IsDecimal(s) ==
    LET b == IF s # <<>> /\ Head(s) \in {"-", "+"} THEN Tail(s) ELSE s
    IN  /\ \A i \in 1..Len(b) : b[i] \in Digits \cup {"."}
        /\ Cardinality({i \in 1..Len(b) : b[i] = "."}) <= 1
        /\ \E i \in 1..Len(b) : b[i] \in Digits

\* The number a decimal text denotes, in tenths.
DecimalValue(s) ==
    LET neg == Head(s) = "-"
        b == IF Head(s) \in {"-", "+"} THEN Tail(s) ELSE s
        dots == {i \in 1..Len(b) : b[i] = "."}
        p == IF dots = {} THEN Len(b) + 1 ELSE CHOOSE i \in dots : TRUE
        mag == 10 * DigitsValue(SubSeq(b, 1, p - 1), 0)
                 + (IF p < Len(b) THEN DigitVal(b[p + 1]) ELSE 0)
    IN  IF neg THEN 0 - mag ELSE mag

\* The value is neither a number nor a numeric string.
NotNumeric(v) == v.t \notin {"number", "string"} \/ (v.t = "string" /\ ~IsDecimal(v.s))

\* The handler took a JSON object with a string device_id.
HandledReading ==
    /\ Handled
    /\ last.payload.kind = "object"
    /\ Field(last.payload, "device_id").t = "string"

\* C11: for a message with a string device_id, a temperature, humidity or
\* light that is absent, or is neither a number nor a string that is
\* entirely a decimal number, is stored as 0, and the message is still
\* passed to InsertSensorData and appended.
C11_NonNumericStoredAsZero ==
    HandledReading
        => /\ last.calls = 1
           /\ \A k \in Readings :
                 NotNumeric(Field(last.payload, k)) => ReadingOf(last.data, k) = 0
           /\ (last.outcome = "stored" /\ last.affected = 1)
                 => Len(rows) = Len(last.rowsBefore) + 1

\* A reading text with a numeric prefix was stored as the prefix's value.
C11_Witness ==
    /\ last.outcome = "stored"
    /\ Field(last.payload, "temperature") = Str(<<"2", "4", ".", "5", "x">>)
    /\ last.data.Temperature = 245
    /\ Len(rows) = 1

\* C12: for a message with a string device_id, a reading given as a number,
\* or as a string that is a decimal number, is stored as that number, and a
\* timestamp text that is well-formed RFC3339 is stored as the instant it
\* denotes, not as the clock's reading.
C12_NumericStoredExactly ==
    HandledReading
        => /\ last.calls = 1
           /\ \A k \in Readings :
                 /\ Field(last.payload, k).t = "number"
                       => ReadingOf(last.data, k) = Field(last.payload, k).n
                 /\ (Field(last.payload, k).t = "string"
                       /\ IsDecimal(Field(last.payload, k).s))
                       => ReadingOf(last.data, k) = DecimalValue(Field(last.payload, k).s)
           /\ ~TimestampUnusable(last.payload)
                 => last.data.Timestamp =
                       LocalOf(Field(last.payload, "timestamp").s[1])
                         - OffsetOf(Field(last.payload, "timestamp").s[2])
           /\ (last.outcome = "stored" /\ last.affected = 1)
                 => rows = Append(last.rowsBefore, Row(last.data))

C12_Witness ==
    /\ last.outcome = "stored"
    /\ Field(last.payload, "temperature") = Str(<<"-", "3", ".", "5">>)
    /\ Field(last.payload, "humidity") = Num(652)
    /\ Field(last.payload, "timestamp") = Str(<<"dt0", "+01:00">>)
    /\ rows = <<[time |-> 0 - 1, temperature |-> 0 - 35, humidity |-> 652,
                 light |-> 0, device_id |-> <<"s", "1">>]>>
    /\ clock > 0

\* C15: payload bytes that are not a JSON object make processMessage return
\* at the json.Unmarshal error, before any extraction: InsertSensorData is
\* not called and the store's rows are as they were.
C15_NotAnObjectStopsAtUnmarshal ==
    (Handled /\ last.payload.kind # "object")
        => /\ last.outcome = "unmarshal"
           /\ last.calls = 0
           /\ rows = last.rowsBefore

\* The document null passed json.Unmarshal and was turned down only at the
\* device_id check.
C15_Witness ==
    /\ last.payload = NullDoc
    /\ last.outcome = "device_id"
    /\ last.calls = 0

\* C17: a message with a string device_id whose INSERT the store executes
\* appends exactly one row, after the rows already there, holding the
\* record's timestamp, temperature, humidity, light and device_id in the
\* columns time, temperature, humidity, light, device_id; an invocation
\* never appends more than one row.
C17_OneRowInColumnOrder ==
    /\ Len(rows) <= insertCalls
    /\ Handled => Len(rows) <= Len(last.rowsBefore) + 1
    /\ (HandledReading /\ last.outcome = "stored" /\ last.affected = 1)
          => /\ Len(rows) = Len(last.rowsBefore) + 1
             /\ SubSeq(rows, 1, Len(last.rowsBefore)) = last.rowsBefore
             /\ DOMAIN rows[Len(rows)] = FiveColumns
             /\ rows[Len(rows)].time = last.data.Timestamp
             /\ rows[Len(rows)].temperature = last.data.Temperature
             /\ rows[Len(rows)].humidity = last.data.Humidity
             /\ rows[Len(rows)].light = last.data.Light
             /\ rows[Len(rows)].device_id = last.data.Device_ID

C17_Witness ==
    /\ last.outcome = "stored"
    /\ Field(last.payload, "humidity") = Num(652)
    /\ Field(last.payload, "light") = Num(8500)
    /\ Field(last.payload, "temperature") = Num(245)
    /\ Field(last.payload, "timestamp") = Str(<<"dt1", "Z">>)
    /\ rows = <<[time |-> 1, temperature |-> 245, humidity |-> 652,
                 light |-> 8500, device_id |-> <<"s", "1">>]>>

\* C18: whenever the Exec of the INSERT returns no error, InsertSensorData
\* returns success and processMessage reports the message as stored, also
\* when the affected-row count is zero and no row was appended.
C18_ZeroRowsIsSuccess ==
    (Handled /\ last.outcome # "abandoned" /\ last.calls = 1 /\ ~last.execErr)
        => /\ last.outcome = "stored"
           /\ last.affected = 0 => rows = last.rowsBefore

C18_Witness ==
    /\ last.outcome = "stored"
    /\ last.calls = 1
    /\ last.affected = 0
    /\ rows = last.rowsBefore
    /\ Field(last.payload, "temperature") = Num(245)

\* C16: no two operations on the shared store connection are in progress at
\* once: at most one handler is running, and the connection is never closed
\* while a handler's InsertSensorData call is in progress on it.
C16_OneStoreOperationAtATime ==
    /\ Len(inbox) + (IF exec.active THEN 1 ELSE 0) <= 1
    /\ ~(exec.active /\ exec.raced)
    /\ ~last.raced

\* Close ran while a handler was inside its InsertSensorData call.
C16_Witness ==
    /\ pc = "returning"
    /\ conn = "closed"
    /\ link = "disconnected"
    /\ exec.active
    /\ exec.raced

\* C20: on shutdown the store connection is closed only after the broker
\* session was disconnected, and no InsertSensorData call starts on a
\* connection that has been closed.
C20_NoInsertAfterClose ==
    /\ conn = "closed" => link = "disconnected"
    /\ last.calls = 1 => last.connAt = "open"

\* A handler dispatched before the disconnect called InsertSensorData after
\* the deferred Close.
C20_Witness ==
    /\ pc = "returning"
    /\ link = "disconnected"
    /\ last.calls = 1
    /\ last.connAt = "closed"
    /\ last.outcome = "insert_err"
    /\ rows = last.rowsBefore

\* C13: after the shutdown signal is received while the service is running,
\* eventually the broker session is disconnected, the store connection is
\* closed and the process has exited.
C13_ShutdownCompletes ==
    (pc = "shutdown")
        ~> (pc = "exited" /\ link = "disconnected" /\ conn = "closed")

C13_Witness ==
    /\ pc = "exited"
    /\ runlog.subscribe = "ok"
    /\ link = "disconnected"
    /\ conn = "closed"
    /\ ~route

KnownSchemes == {TCP, SSL, WS, WSS, HTTP, HTTPS}

\* The scheme a broker string starts with, the empty text if none.
SchemeOf(b) ==
    IF \E sch \in KnownSchemes : HasPrefix(b, sch)
    THEN CHOOSE sch \in KnownSchemes : HasPrefix(b, sch)
    ELSE <<>>

\* What follows the scheme.
HostPart(b) == SubSeq(b, Len(SchemeOf(b)) + 1, Len(b))

\* The host part carries a port: a colon after the credentials, if any.
CarriesPort(h) ==
    LET ats == {i \in 1..Len(h) : h[i] = "@"}
        from == IF ats = {} THEN 1 ELSE 1 + CHOOSE i \in ats : \A j \in ats : j <= i
    IN  \E i \in from..Len(h) : h[i] = ":"

\* The scheme of the URL the claim gives for a broker string's scheme.
MappedScheme(sch) ==
    CASE sch = HTTP -> TCP
      [] sch = HTTPS -> SSL
      [] sch = <<>> -> TCP
      [] OTHER -> sch

\* The URL the claim gives: the mapped scheme, the host part, and the
\* configured port when the host part carries none.
ExpectedURL(c) ==
    MappedScheme(SchemeOf(c.Broker)) \o HostPart(c.Broker)
        \o (IF CarriesPort(HostPart(c.Broker)) THEN <<>>
            ELSE <<":">> \o Itoa(c.Port))

\* C19: for every broker string and port GetMQTTBrokerURL returns, without
\* a fault, the URL with the mapped scheme (http to tcp, https to ssl, none
\* to tcp) and with the configured port appended exactly when the host part
\* carries none, and NewClient installs a TLS configuration exactly when
\* that scheme is ssl:// or wss://.
C19_BrokerURL ==
    runlog.connect # "none"
        => /\ runlog.connect # "panic"
           /\ client.built
           /\ client.url = ExpectedURL(cfg)
           /\ client.tls <=> MappedScheme(SchemeOf(cfg.Broker)) \in {SSL, WSS}

\* The broker string ws:// made the URL construction panic.
C19_Witness ==
    /\ cfg.Broker = WS
    /\ runlog.connect = "panic"
    /\ pc = "aborted"
    /\ ~client.built

\* C14: Close may be called in every state of the gateway (after a
\* successful, a failed or a partial InitializeTable) and leaves the
\* connection released; a Close on a connection already closed returns no
\* error and leaves it closed.
C14_CloseIdempotent ==
    /\ closeLog # <<>> => conn = "closed"
    /\ \A i \in 1..Len(closeLog) :
          /\ closeLog[i].after = "closed"
          /\ closeLog[i].before = "closed" => ~closeLog[i].err
    /\ Len(closeLog) = 2 => closeLog[2].before = "closed"

\* A second Close, after an InitializeTable that created the table and
\* failed before making it a hypertable.
C14_Witness ==
    /\ Len(closeLog) = 2
    /\ closeLog[1].before = "open"
    /\ closeLog[2].before = "closed"
    /\ ~closeLog[2].err
    /\ Len(initLog) = 1
    /\ initLog[1].err
    /\ schema.exists
    /\ ~schema.hypertable
    /\ conn = "closed"

\* C21: whenever the process has exited after NewTimescaleDB succeeded
\* (normal shutdown, or a failed InitializeTable, Connect or Subscribe),
\* the store connection was closed before the exit, and the broker session,
\* if Connect had succeeded, was disconnected by Disconnect.
C21_ResourcesReleasedAtExit ==
    (pc \in {"aborted", "exited"} /\ runlog.abortAt # "NewTimescaleDB")
        => /\ conn = "closed"
           /\ runlog.connect = "ok" => runlog.disconnect = "done"

\* The process ended at the failed Subscribe with the store connection
\* never closed and the connected session never disconnected.
C21_Witness ==
    /\ pc = "aborted"
    /\ runlog.abortAt = "Subscribe"
    /\ runlog.connect = "ok"
    /\ runlog.disconnect = "none"
    /\ conn = "leaked"
    /\ closeLog = <<>>

====
